---------------------------- MODULE Spec2Model ----------------------------
(***************************************************************************)
(* Provider routing and request dispatch of the multi-AI browser           *)
(* extension: AIRouter (background/aiRouter.ts, shipped in types/ai.ts),   *)
(* APIManager (background/apiManager.ts), sendToAI / trackUsage            *)
(* (background/index.ts), the provider adapters and StorageService.        *)
(*                                                                         *)
(* Text is a sequence of one-character strings so that RegExp.test is a    *)
(* real substring search.  Scores are exact integers: a score s of the     *)
(* source is represented by s * ScoreScale.                                *)
(*                                                                         *)
(* Atomicity follows the JavaScript event loop: everything a handler runs  *)
(* between two awaits on an external event (network, chrome.* callback,    *)
(* incoming call) is one action.                                           *)
(***************************************************************************)
EXTENDS Integers, Sequences, FiniteSets, TLC

Providers == <<"claude", "chatgpt", "gemini", "grok">>

ProviderSet == {Providers[i] : i \in 1..Len(Providers)}

NoProvider == "none"

(***************************************************************************)
(* Text helpers                                                            *)
(***************************************************************************)
toLowerCase(text) ==
  [i \in 1..Len(text) |->
     CASE text[i] = "A" -> "a"
       [] text[i] = "B" -> "b"
       [] text[i] = "C" -> "c"
       [] text[i] = "D" -> "d"
       [] text[i] = "E" -> "e"
       [] text[i] = "F" -> "f"
       [] text[i] = "G" -> "g"
       [] text[i] = "H" -> "h"
       [] text[i] = "I" -> "i"
       [] text[i] = "J" -> "j"
       [] text[i] = "K" -> "k"
       [] text[i] = "L" -> "l"
       [] text[i] = "M" -> "m"
       [] text[i] = "N" -> "n"
       [] text[i] = "O" -> "o"
       [] text[i] = "P" -> "p"
       [] text[i] = "Q" -> "q"
       [] text[i] = "R" -> "r"
       [] text[i] = "S" -> "s"
       [] text[i] = "T" -> "t"
       [] text[i] = "U" -> "u"
       [] text[i] = "V" -> "v"
       [] text[i] = "W" -> "w"
       [] text[i] = "X" -> "x"
       [] text[i] = "Y" -> "y"
       [] text[i] = "Z" -> "z"
       [] OTHER -> text[i]]

\* RegExp.test for a pattern that is an alternation of literals
Contains(text, word) ==
  \E i \in 0..(Len(text) - Len(word)) :
     \A j \in 1..Len(word) : text[i + j] = word[j]

test(pattern, text) ==
  \E k \in 1..Len(pattern) : Contains(text, pattern[k])

(***************************************************************************)
(* AIRouter: static tables                                                 *)
(***************************************************************************)
routingRules ==
  << [id |-> "claude-creative", provider |-> "claude", priority |-> 10,
      taskTypes |-> <<"creative_writing">>,
      pattern |-> <<<<"w","r","i","t","e">>, <<"s","t","o","r","y">>, <<"c","r","e","a","t","i","v","e">>, <<"p","o","e","m">>, <<"n","a","r","r","a","t","i","v","e">>, <<"e","s","s","a","y">>, <<"a","r","t","i","c","l","e">>>>],
     [id |-> "claude-analysis", provider |-> "claude", priority |-> 10,
      taskTypes |-> <<"analysis", "reasoning">>,
      pattern |-> <<<<"a","n","a","l","y","z","e">>, <<"a","n","a","l","y","s","i","s">>, <<"r","e","a","s","o","n","i","n","g">>, <<"e","x","p","l","a","i","n">>, <<"u","n","d","e","r","s","t","a","n","d">>, <<"c","o","m","p","l","e","x">>>>],
     [id |-> "chatgpt-code", provider |-> "chatgpt", priority |-> 10,
      taskTypes |-> <<"code_generation", "debugging">>,
      pattern |-> <<<<"c","o","d","e">>, <<"p","r","o","g","r","a","m">>, <<"f","u","n","c","t","i","o","n">>, <<"d","e","b","u","g">>, <<"i","m","p","l","e","m","e","n","t">>, <<"j","a","v","a","s","c","r","i","p","t">>, <<"p","y","t","h","o","n">>, <<"t","y","p","e","s","c","r","i","p","t">>>>],
     [id |-> "chatgpt-technical", provider |-> "chatgpt", priority |-> 9,
      taskTypes |-> <<"technical_docs">>,
      pattern |-> <<<<"t","e","c","h","n","i","c","a","l">>, <<"d","o","c","u","m","e","n","t","a","t","i","o","n">>, <<"a","p","i">>, <<"s","p","e","c","i","f","i","c","a","t","i","o","n">>>>],
     [id |-> "gemini-research", provider |-> "gemini", priority |-> 10,
      taskTypes |-> <<"research", "real_time_info">>,
      pattern |-> <<<<"r","e","s","e","a","r","c","h">>, <<"s","e","a","r","c","h">>, <<"f","i","n","d">>, <<"l","a","t","e","s","t">>, <<"n","e","w","s">>, <<"c","u","r","r","e","n","t">>, <<"g","o","o","g","l","e">>>>],
     [id |-> "gemini-data", provider |-> "gemini", priority |-> 9,
      taskTypes |-> <<"data_extraction">>,
      pattern |-> <<<<"e","x","t","r","a","c","t">>, <<"d","a","t","a">>, <<"t","a","b","l","e">>, <<"c","s","v">>, <<"j","s","o","n">>, <<"p","a","r","s","e">>>>],
     [id |-> "grok-casual", provider |-> "grok", priority |-> 8,
      taskTypes |-> <<"casual_chat">>,
      pattern |-> <<<<"c","h","a","t">>, <<"c","a","s","u","a","l">>, <<"q","u","i","c","k">>, <<"s","i","m","p","l","e">>, <<"h","e","y">>, <<"h","i">>>>],
     [id |-> "grok-social", provider |-> "grok", priority |-> 10,
      taskTypes |-> <<"casual_chat">>,
      pattern |-> <<<<"t","w","e","e","t">>, <<"p","o","s","t">>, <<"s","o","c","i","a","l">>, <<"t","w","i","t","t","e","r">>, <<"x",".","c","o","m">>>>] >>

taskKeywords ==
  << [type |-> "creative_writing",
      pattern |-> <<<<"w","r","i","t","e">>, <<"s","t","o","r","y">>, <<"c","r","e","a","t","i","v","e">>, <<"p","o","e","m">>, <<"n","a","r","r","a","t","i","v","e">>>>],
     [type |-> "analysis",
      pattern |-> <<<<"a","n","a","l","y","z","e">>, <<"a","n","a","l","y","s","i","s">>, <<"e","x","p","l","a","i","n">>, <<"u","n","d","e","r","s","t","a","n","d">>>>],
     [type |-> "reasoning",
      pattern |-> <<<<"r","e","a","s","o","n">>, <<"l","o","g","i","c">>, <<"d","e","d","u","c","e">>, <<"c","o","n","c","l","u","d","e">>>>],
     [type |-> "code_generation",
      pattern |-> <<<<"c","o","d","e">>, <<"p","r","o","g","r","a","m">>, <<"f","u","n","c","t","i","o","n">>, <<"i","m","p","l","e","m","e","n","t">>>>],
     [type |-> "debugging",
      pattern |-> <<<<"d","e","b","u","g">>, <<"f","i","x">>, <<"e","r","r","o","r">>, <<"b","u","g">>>>],
     [type |-> "technical_docs",
      pattern |-> <<<<"d","o","c","u","m","e","n","t">>, <<"a","p","i">>, <<"t","e","c","h","n","i","c","a","l">>, <<"s","p","e","c","i","f","i","c","a","t","i","o","n">>>>],
     [type |-> "research",
      pattern |-> <<<<"r","e","s","e","a","r","c","h">>, <<"f","i","n","d">>, <<"s","e","a","r","c","h">>, <<"i","n","f","o","r","m","a","t","i","o","n">>>>],
     [type |-> "real_time_info",
      pattern |-> <<<<"l","a","t","e","s","t">>, <<"c","u","r","r","e","n","t">>, <<"t","o","d","a","y">>, <<"n","e","w","s">>>>],
     [type |-> "translation",
      pattern |-> <<<<"t","r","a","n","s","l","a","t","e">>, <<"t","r","a","n","s","l","a","t","i","o","n">>, <<"l","a","n","g","u","a","g","e">>>>],
     [type |-> "summarization",
      pattern |-> <<<<"s","u","m","m","a","r","i","z","e">>, <<"s","u","m","m","a","r","y">>, <<"b","r","i","e","f">>, <<"t","l","d","r">>>>],
     [type |-> "casual_chat",
      pattern |-> <<<<"c","h","a","t">>, <<"t","a","l","k">>, <<"h","e","y">>, <<"h","i">>, <<"h","e","l","l","o">>>>],
     [type |-> "data_extraction",
      pattern |-> <<<<"e","x","t","r","a","c","t">>, <<"p","a","r","s","e">>, <<"d","a","t","a">>, <<"t","a","b","l","e">>>>] >>

MsgDebug == <<"D","e","b","u","g"," ","t","h","i","s"," ","f","u","n","c","t","i","o","n">>
MsgHi == <<"h","i">>
MsgPoem == <<"w","r","i","t","e"," ","a"," ","p","o","e","m">>
MsgNews == <<"l","a","t","e","s","t"," ","n","e","w","s">>
MsgPlain == <<"o","k">>
MsgData == <<"p","a","r","s","e"," ","j","s","o","n"," ","a","p","i">>
MsgApiNews == <<"a","p","i"," ","n","e","w","s">>

capabilities ==
  [claude  |-> [creative_writing |-> 10, analysis |-> 10, reasoning |-> 10,
                code_generation |-> 8, debugging |-> 7, technical_docs |-> 8,
                research |-> 6, real_time_info |-> 3, translation |-> 8,
                summarization |-> 9, casual_chat |-> 8, data_extraction |-> 7],
   chatgpt |-> [creative_writing |-> 8, analysis |-> 8, reasoning |-> 8,
                code_generation |-> 10, debugging |-> 10, technical_docs |-> 10,
                research |-> 7, real_time_info |-> 4, translation |-> 9,
                summarization |-> 8, casual_chat |-> 8, data_extraction |-> 8],
   gemini  |-> [creative_writing |-> 7, analysis |-> 8, reasoning |-> 8,
                code_generation |-> 8, debugging |-> 7, technical_docs |-> 8,
                research |-> 10, real_time_info |-> 10, translation |-> 9,
                summarization |-> 8, casual_chat |-> 7, data_extraction |-> 9],
   grok    |-> [creative_writing |-> 6, analysis |-> 6, reasoning |-> 6,
                code_generation |-> 6, debugging |-> 5, technical_docs |-> 6,
                research |-> 7, real_time_info |-> 9, translation |-> 6,
                summarization |-> 7, casual_chat |-> 10, data_extraction |-> 6]]

\* estimated cost per 1k tokens, in tenths of a cent
costs ==
  [claude  |-> [input |-> 8,  output |-> 24],
   chatgpt |-> [input |-> 10, output |-> 30],
   gemini  |-> [input |-> 5,  output |-> 15],
   grok    |-> [input |-> 3,  output |-> 9]]

\* avgResponseTime in ms, successRate in hundredths
initializeMetrics ==
  [claude  |-> [avgResponseTime |-> 2000, successRate |-> 98],
   chatgpt |-> [avgResponseTime |-> 1800, successRate |-> 97],
   gemini  |-> [avgResponseTime |-> 1500, successRate |-> 96],
   grok    |-> [avgResponseTime |-> 1000, successRate |-> 95]]

TaskTypes ==
  {"creative_writing", "analysis", "reasoning", "code_generation",
   "debugging", "technical_docs", "research", "real_time_info",
   "translation", "summarization", "casual_chat", "data_extraction"}

\* a score s of the source is the integer s * ScoreScale
ScoreScale == 500000

\* maxCost = 5 cents, in units of 1/10000 cent
maxCost == 50000

\* maxTime = 5000 ms
maxTime == 5000

\* request.maxTokens || 1000
defaultOutputTokens == 1000

(***************************************************************************)
(* Requests.  provider = NoProvider and maxTokens = 0 stand for undefined. *)
(***************************************************************************)
Request(provider, content, stream, selection) ==
  [provider |-> provider, model |-> "", stream |-> stream, maxTokens |-> 0,
   messages |-> << [role |-> "user", content |-> content] >>,
   context |-> [selection |-> selection, visibleText |-> << >>]]

Max(a, b) == IF a >= b THEN a ELSE b

(***************************************************************************)
(* AIRouter: pure functions                                                *)
(***************************************************************************)
getRequestContent(request) ==
  LET messages == request.messages
      last == IF Len(messages) > 0 THEN messages[Len(messages)].content ELSE << >>
      context == IF Len(request.context.selection) > 0
                 THEN request.context.selection
                 ELSE request.context.visibleText
  IN  toLowerCase(last \o <<" ">> \o context)

RECURSIVE firstRule(_, _)
\* index of the first routing rule at or after k whose pattern matches, 0 if none
firstRule(content, k) ==
  IF k > Len(routingRules) THEN 0
  ELSE IF test(routingRules[k].pattern, content) THEN k
  ELSE firstRule(content, k + 1)

RECURSIVE firstKeyword(_, _)
firstKeyword(content, k) ==
  IF k > Len(taskKeywords) THEN 0
  ELSE IF test(taskKeywords[k].pattern, content) THEN k
  ELSE firstKeyword(content, k + 1)

detectTaskType(request) ==
  LET content == getRequestContent(request)
      r == firstRule(content, 1)
      w == firstKeyword(content, 1)
  IN  IF r > 0 THEN routingRules[r].taskTypes[1]
      ELSE IF w > 0 THEN taskKeywords[w].type
      ELSE "casual_chat"

\* tenths
calculateCapabilityMatch(provider, taskType, request) ==
  LET content == getRequestContent(request)
      matchingRule == \E k \in 1..Len(routingRules) :
                         /\ routingRules[k].provider = provider
                         /\ test(routingRules[k].pattern, content)
      c == capabilities[provider][taskType]
  IN  IF matchingRule THEN 10
      ELSE IF c # 0 THEN c ELSE 5

\* hundredths
calculateUserPreference(prefs, metrics, provider, taskType) ==
  LET preferredProvider == prefs[taskType]
  IN  IF preferredProvider = provider THEN 100
      ELSE IF preferredProvider # NoProvider THEN 30
      ELSE IF metrics[provider].successRate # 0
           THEN metrics[provider].successRate ELSE 50

estimateTokens(request) ==
  LET n == Len(getRequestContent(request))
  IN  [input  |-> (n + 3) \div 4,
       output |-> IF request.maxTokens # 0 THEN request.maxTokens
                  ELSE defaultOutputTokens]

\* units of 1/maxCost
calculateCostEfficiency(provider, request) ==
  LET estimatedTokens == estimateTokens(request)
      cost == costs[provider]
      estimatedCost == estimatedTokens.input * cost.input
                       + estimatedTokens.output * cost.output
  IN  Max(0, maxCost - estimatedCost)

\* units of 1/maxTime
calculateResponseSpeed(metrics, provider) ==
  Max(0, maxTime - metrics[provider].avgResponseTime)

\* variant: the four factors weigh the same
calculateProviderScoreEvenWeights(prefs, metrics, provider, request, taskType) ==
  LET factors ==
        [capabilityMatch |-> calculateCapabilityMatch(provider, taskType, request),
         userPreference  |-> calculateUserPreference(prefs, metrics, provider, taskType),
         costEfficiency  |-> calculateCostEfficiency(provider, request),
         responseSpeed   |-> calculateResponseSpeed(metrics, provider)]
      score == factors.capabilityMatch * (ScoreScale \div 40)
               + factors.userPreference * (ScoreScale \div 400)
               + factors.costEfficiency * (ScoreScale \div (4 * maxCost))
               + factors.responseSpeed * (ScoreScale \div (4 * maxTime))
  IN  [provider |-> provider, score |-> score, factors |-> factors]

calculateProviderScore(prefs, metrics, provider, request, taskType) ==
  LET factors ==
        [capabilityMatch |-> calculateCapabilityMatch(provider, taskType, request),
         userPreference  |-> calculateUserPreference(prefs, metrics, provider, taskType),
         costEfficiency  |-> calculateCostEfficiency(provider, request),
         responseSpeed   |-> calculateResponseSpeed(metrics, provider)]
      score == factors.capabilityMatch * ((4 * ScoreScale) \div 100)
               + factors.userPreference * ((3 * ScoreScale) \div 1000)
               + factors.costEfficiency * ((2 * ScoreScale) \div (10 * maxCost))
               + factors.responseSpeed * (ScoreScale \div (10 * maxTime))
  IN  [provider |-> provider, score |-> score, factors |-> factors]

RECURSIVE scoresFrom(_, _, _, _, _, _)
\* the loop of calculateScores from provider index k on
scoresFrom(stg, prefs, metrics, request, taskType, k) ==
  IF k > Len(Providers) THEN << >>
  ELSE LET provider == Providers[k]
           rest == scoresFrom(stg, prefs, metrics, request, taskType, k + 1)
       IN  IF ~stg.providers[provider].enabled THEN rest
           ELSE << calculateProviderScore(prefs, metrics, provider, request,
                                          taskType) >> \o rest

\* variant: the enabled flags are not consulted
calculateScoresOfAll(stg, prefs, metrics, request) ==
  scoresFrom([providers |-> [p \in ProviderSet |-> [enabled |-> TRUE]]],
             prefs, metrics, request, detectTaskType(request), 1)

calculateScores(stg, prefs, metrics, request) ==
  LET taskType == detectTaskType(request)
  IN  scoresFrom(stg, prefs, metrics, request, taskType, 1)

RECURSIVE sortByScore(_)
\* Array.prototype.sort((a, b) => b.score - a.score): stable, descending
sortByScore(scores) ==
  IF Len(scores) <= 1 THEN scores
  ELSE LET rest == sortByScore(Tail(scores))
           x == Head(scores)
           n == Cardinality({i \in 1..Len(rest) : rest[i].score > x.score})
       IN  SubSeq(rest, 1, n) \o <<x>> \o SubSeq(rest, n + 1, Len(rest))

\* the value route resolves to, or the exception it rejects with
route(stg, prefs, metrics, request) ==
  LET sorted == sortByScore(calculateScores(stg, prefs, metrics, request))
  IN  IF Len(sorted) = 0
      THEN [threw |-> TRUE, provider |-> NoProvider,
            error |-> "TypeError: Cannot read properties of undefined (reading 'provider')"]
      ELSE [threw |-> FALSE, provider |-> sorted[1].provider, error |-> ""]

(***************************************************************************)
(* Settings (StorageService.getDefaultSettings) and stored configuration   *)
(***************************************************************************)
getDefaultSettings ==
  [general   |-> [defaultProvider |-> "claude", autoRouting |-> TRUE],
   providers |-> [p \in ProviderSet |-> [enabled |-> TRUE]],
   advanced  |-> [concurrentRequests |-> 3, cacheResponses |-> TRUE]]

\* the userPreferences map, NoProvider where it has no entry
NoPreferences == [t \in TaskTypes |-> NoProvider]

\* metrics after loadUserPreferences found more than 10 sequential requests of
\* one provider: its success rate and average response time are overwritten
SlowClaudeMetrics ==
  [initializeMetrics EXCEPT !["claude"] = [avgResponseTime |-> 4000, successRate |-> 50]]

MetricsPool == {initializeMetrics, SlowClaudeMetrics}

RequestPool ==
  { Request(NoProvider, MsgDebug, FALSE, << >>),
    Request(NoProvider, MsgPlain, FALSE, MsgNews),
    Request(NoProvider, MsgData, FALSE, << >>),
    Request(NoProvider, MsgApiNews, FALSE, << >>),
    Request("grok", MsgDebug, FALSE, << >>),
    Request("gemini", MsgPoem, FALSE, << >>) }

PreferenceTasks == {"code_generation"}

PreferenceProviders == {"claude", "grok"}

(***************************************************************************)
(* Responses.  error = "" , usage = << >> and cost = 0 stand for undefined.*)
(* Content is the sequence of its text fragments.  Cost is in 1e-7 USD.    *)
(***************************************************************************)
Response(provider, content, error, usage, cost, streaming) ==
  [provider |-> provider, content |-> content, error |-> error,
   usage |-> usage, cost |-> cost, streaming |-> streaming]

NoRequest == Request(NoProvider, << >>, FALSE, << >>)

NoResponse == Response(NoProvider, << >>, "", << >>, 0, FALSE)

\* per-token price of each adapter's default model, in 1e-7 USD
modelCost ==
  [claude  |-> [input |-> 30,  output |-> 150],
   chatgpt |-> [input |-> 100, output |-> 300],
   gemini  |-> [input |-> 5,   output |-> 15],
   grok    |-> [input |-> 3,   output |-> 9]]

calculateCost(provider, inputTokens, outputTokens) ==
  inputTokens * modelCost[provider].input + outputTokens * modelCost[provider].output

\* body of a 200 answer of the provider API: text and token usage; text
\* fragments are numbered, 0 is the whole text of a unary answer
ApiText == <<0>>

ApiUsage == [input_tokens |-> 10, output_tokens |-> 20]

transformResponse(provider) ==
  Response(provider, ApiText, "",
           << [inputTokens |-> ApiUsage.input_tokens,
               outputTokens |-> ApiUsage.output_tokens,
               totalTokens |-> ApiUsage.input_tokens + ApiUsage.output_tokens] >>,
           calculateCost(provider, ApiUsage.input_tokens, ApiUsage.output_tokens),
           FALSE)

\* an error as the adapters' catch blocks see it: an AxiosError carrying an
\* HTTP response (status # 0) or an Error / DOMException with only a message
HttpError(status) == [status |-> status, message |-> "Request failed"]

PlainError(message) == [status |-> 0, message |-> message]

\* variant: the adapter reports no error
handleErrorSilent(provider, error) ==
  Response(provider, << >>, "", << >>, 0, FALSE)

handleError(provider, error) ==
  LET s == error.status
      unavailable == CASE provider = "claude"  -> "Claude API is temporarily unavailable"
                       [] provider = "chatgpt" -> "OpenAI API is temporarily unavailable"
                       [] provider = "gemini"  -> "Gemini API is temporarily unavailable"
                       [] provider = "grok"    -> "Grok API is temporarily unavailable"
      errorMessage ==
        IF s = 0 THEN error.message
        ELSE IF s = 401
             THEN (IF provider = "gemini" THEN "Invalid or missing API key"
                   ELSE "Invalid API key")
        ELSE IF s = 429
             THEN (CASE provider = "claude" -> "Rate limit exceeded"
                     [] provider = "grok" ->
                          "Rate limit exceeded. Grok has fast responses but limited rate."
                     [] OTHER -> "Rate limit exceeded. Please try again later.")
        ELSE IF s \in {500, 502, 503} THEN unavailable
        ELSE "HTTP error"
  IN  Response(provider, << >>, errorMessage, << >>, 0, FALSE)

\* axios rejects with CanceledError('canceled'); fetch and reader.read()
\* reject with an AbortError DOMException
AxiosCanceled == PlainError("canceled")

FetchAborted == PlainError("The user aborted a request.")

\* throw new Error(`HTTP ${response.status}: ${response.statusText}`)
FetchNotOk(status) ==
  PlainError(CASE status = 401 -> "HTTP 401: Unauthorized"
               [] status = 429 -> "HTTP 429: Too Many Requests"
               [] OTHER -> "HTTP 500: Internal Server Error")

HttpStatuses == {200, 401}

(***************************************************************************)
(* Usage accounting (trackUsage) and response cache (StorageService)       *)
(***************************************************************************)
NoProviderUsage ==
  [present |-> FALSE, requests |-> 0, input |-> 0, output |-> 0,
   cost |-> 0, errors |-> 0]

\* the object trackUsage starts from when storage holds no 'usage'
EmptyUsage ==
  [totalRequests |-> 0, totalTokens |-> [input |-> 0, output |-> 0],
   totalCost |-> 0, byProvider |-> [p \in ProviderSet |-> NoProviderUsage],
   dailyUsage |-> << >>]

\* usage.dailyUsage.slice(-30)
DailyRetention == 30

slice(s, n) == IF Len(s) <= n THEN s ELSE SubSeq(s, Len(s) - n + 1, Len(s))

\* the synchronous body of trackUsage between its storage get and its set;
\* usage.monthlyBudget is never assigned, so the alert branch is not taken
recordUsage(usage, provider, response, day) ==
  LET hasUsage == response.usage # << >>
      inTok  == IF hasUsage THEN response.usage[1].inputTokens ELSE 0
      outTok == IF hasUsage THEN response.usage[1].outputTokens ELSE 0
      totTok == IF hasUsage THEN response.usage[1].totalTokens ELSE 0
      old == usage.byProvider[provider]
      byP == [present |-> TRUE,
              requests |-> old.requests + 1,
              input |-> old.input + inTok,
              output |-> old.output + outTok,
              cost |-> old.cost + response.cost,
              errors |-> old.errors + (IF response.error # "" THEN 1 ELSE 0)]
      days == usage.dailyUsage
      idx == {i \in 1..Len(days) : days[i].date = day}
      daily ==
        IF idx # {}
        THEN LET i == CHOOSE j \in idx : \A k \in idx : j <= k
             IN  [days EXCEPT ![i] =
                    [date |-> days[i].date,
                     requests |-> days[i].requests + 1,
                     tokens |-> days[i].tokens,
                     cost |-> days[i].cost + response.cost,
                     providers |-> [days[i].providers EXCEPT
                                      ![provider] = days[i].providers[provider] + 1]]]
        ELSE Append(days,
                    [date |-> day, requests |-> 1, tokens |-> totTok,
                     cost |-> response.cost,
                     providers |-> [p \in ProviderSet |->
                                      IF p = provider THEN 1 ELSE 0]])
  IN  [totalRequests |-> usage.totalRequests + 1,
       totalTokens |-> [input |-> usage.totalTokens.input + inTok,
                        output |-> usage.totalTokens.output + outTok],
       totalCost |-> usage.totalCost + response.cost,
       byProvider |-> [usage.byProvider EXCEPT ![provider] = byP],
       dailyUsage |-> slice(daily, DailyRetention)]

\* generateCacheKey: btoa(JSON.stringify(...)) of these five request fields
generateCacheKey(request) ==
  <<request.provider, request.model, request.messages, 0, request.maxTokens>>

\* ResponseCache defaults of setCachedResponse
cacheMaxSize == 100

\* the ResponseCache object that StorageService.cache holds for 'cache':
\* present = FALSE when the memory cache has no live entry for the key;
\* isMap = FALSE when entries came back from chrome.storage as a plain {}
NoCacheObject == [present |-> FALSE, isMap |-> FALSE, entries |-> << >>]

entryIndex(entries, key) ==
  LET idx == {i \in 1..Len(entries) : entries[i].key = key}
  IN  IF idx = {} THEN 0 ELSE CHOOSE i \in idx : TRUE

\* this.get('cache'): the memory-cached object, else what chrome.storage
\* returns (a stored cache deserialises with entries = {}), else null
getCacheObject(mem, stored) ==
  IF mem.present THEN mem
  ELSE IF stored THEN [present |-> TRUE, isMap |-> FALSE, entries |-> << >>]
  ELSE NoCacheObject

\* variant: an expired entry is reported as a miss but left in the cache
getCachedResponseKeepsExpired(mem, stored, key) ==
  LET cache == getCacheObject(mem, stored)
      i == entryIndex(cache.entries, key)
  IN  IF ~cache.present
      THEN [kind |-> "miss", mem |-> mem, stored |-> stored, response |-> NoResponse]
      ELSE IF ~cache.isMap
      THEN [kind |-> "throw", mem |-> cache, stored |-> stored, response |-> NoResponse]
      ELSE IF i = 0 \/ cache.entries[i].expired
      THEN [kind |-> "miss", mem |-> cache, stored |-> stored, response |-> NoResponse]
      ELSE [kind |-> "hit", stored |-> TRUE,
            response |-> cache.entries[i].response,
            mem |-> [cache EXCEPT !.entries[i].hits = @ + 1]]

\* getCachedResponse(key): outcome and the cache object left in memory
getCachedResponse(mem, stored, key) ==
  LET cache == getCacheObject(mem, stored)
      i == entryIndex(cache.entries, key)
  IN  IF ~cache.present
      THEN [kind |-> "miss", mem |-> mem, stored |-> stored, response |-> NoResponse]
      ELSE IF ~cache.isMap
      THEN [kind |-> "throw", mem |-> cache, stored |-> stored, response |-> NoResponse]
      ELSE IF i = 0
      THEN [kind |-> "miss", mem |-> cache, stored |-> stored, response |-> NoResponse]
      ELSE IF cache.entries[i].expired
      THEN [kind |-> "miss", stored |-> TRUE, response |-> NoResponse,
            mem |-> [cache EXCEPT !.entries =
                       SubSeq(cache.entries, 1, i - 1)
                       \o SubSeq(cache.entries, i + 1, Len(cache.entries))]]
      ELSE [kind |-> "hit", stored |-> TRUE,
            response |-> cache.entries[i].response,
            mem |-> [cache EXCEPT !.entries[i].hits = @ + 1]]

\* setCachedResponse(key, response, provider): the cache object left in memory
setCachedResponse(mem, stored, key, response, provider) ==
  LET cache == getCacheObject(mem, stored)
      entry == [key |-> key, response |-> response, expired |-> FALSE,
                hits |-> 0, provider |-> provider]
      old == IF cache.present /\ cache.isMap THEN cache.entries ELSE << >>
      i == entryIndex(old, key)
      \* entries are kept in timestamp order: a replaced key becomes the newest
      put == IF i = 0 THEN Append(old, entry)
             ELSE Append(SubSeq(old, 1, i - 1) \o SubSeq(old, i + 1, Len(old)), entry)
      kept == IF Len(put) > cacheMaxSize
              THEN SubSeq(put, Len(put) - cacheMaxSize + 1, Len(put)) ELSE put
  IN  [present |-> TRUE, isMap |-> TRUE, entries |-> kept]

(***************************************************************************)
(* sendToAI: provider resolution and credential check                      *)
(***************************************************************************)
\* lines 155-173 of sendToAI: the provider the request is dispatched to, or
\* the exception its catch block turns into an error Response
\* variant: the request goes on without the API key check
resolveProviderNoKeyCheck(stg, prefs, metrics, keys, request) ==
  LET routed == route(stg, prefs, metrics, request)
      provider == IF request.provider # NoProvider THEN request.provider
                  ELSE IF stg.general.autoRouting THEN routed.provider
                  ELSE stg.general.defaultProvider
  IN  IF request.provider = NoProvider /\ stg.general.autoRouting /\ routed.threw
      THEN [threw |-> TRUE, provider |-> NoProvider, error |-> routed.error]
      ELSE [threw |-> FALSE, provider |-> provider, error |-> ""]

resolveProvider(stg, prefs, metrics, keys, request) ==
  LET routed == route(stg, prefs, metrics, request)
      provider == IF request.provider # NoProvider THEN request.provider
                  ELSE IF stg.general.autoRouting THEN routed.provider
                  ELSE stg.general.defaultProvider
  IN  IF request.provider = NoProvider /\ stg.general.autoRouting /\ routed.threw
      THEN [threw |-> TRUE, provider |-> NoProvider, error |-> routed.error]
      ELSE IF provider \notin keys
      THEN [threw |-> TRUE, provider |-> provider, error |-> "API key not found"]
      ELSE [threw |-> FALSE, provider |-> provider, error |-> ""]

\* the Response built by the catch block of sendToAI
caughtResponse(request, message) ==
  Response(IF request.provider # NoProvider THEN request.provider ELSE "claude",
           << >>, message, << >>, 0, FALSE)

(***************************************************************************)
(* Bounds                                                                  *)
(***************************************************************************)
\* number of sendToAI / trackUsage calls
MaxDispatch == 2

\* onChunk invocations of one stream
MaxChunks == 2

\* cache operations called on their own
MaxCacheCalls == 3

\* last calendar day, counted from the first
MaxDay == 32

Dispatches == 1..MaxDispatch

\* every dispatch generates at most one request id
RequestIds == 1..MaxDispatch

\* stored settings the service worker may start with
LimitOneSettings ==
  [getDefaultSettings EXCEPT !.advanced.concurrentRequests = 1]

NoneEnabledSettings ==
  [getDefaultSettings EXCEPT !.general.autoRouting = FALSE,
                             !.providers = [p \in ProviderSet |-> [enabled |-> FALSE]],
                             !.advanced.cacheResponses = FALSE]

SettingsPool == {getDefaultSettings, NoneEnabledSettings}

NoCacheSettings == [getDefaultSettings EXCEPT !.advanced.cacheResponses = FALSE]

\* the password sendToAI decrypts API keys with
getMasterPassword == "temporary-master-password"

MasterPasswords == {getMasterPassword, "another password"}

DispatchRequests ==
  { Request("claude", MsgHi, TRUE, << >>),
    Request(NoProvider, MsgHi, FALSE, << >>) }

VARIABLES
  settings,            \* chrome.storage.sync 'settings' as getSettings returns it
  userPreferences,     \* AIRouter.userPreferences
  performanceMetrics,  \* AIRouter.performanceMetrics
  routeReq,            \* <<argument>> of the last AIRouter.route call, << >> before
  routeResult,         \* <<what that call resolved to or threw>>
  apiKeys,             \* providers with a decryptable stored API key
  pc,                  \* position of each sendToAI call
  req,                 \* its request
  prov,                \* its resolved provider
  rid,                 \* the requestId sendRequest generated for it, 0 before
  resp,                \* the Response it got from the adapter / returns
  caller,              \* who awaits APIManager.sendRequest: "sendToAI" or "direct"
  nextRequestId,       \* generateRequestId: ids are fresh
  activeRequests,      \* APIManager.activeRequests (its key set)
  aborted,             \* request ids whose AbortController was aborted
  net,                 \* the adapter call: transport phase, onChunk calls so far
  fullContent,         \* accumulator of handleStreamingRequest
  streamPromise,       \* promise of handleStreamingRequest
  pendingSends,        \* sendStreamChunk / sendStreamEnd awaiting chrome.tabs.query
  delivered,           \* per request id, its chrome.tabs.sendMessage calls in order
  cancelled,           \* ids cancelRequest / cancelAllRequests found in flight
  cacheWrites,         \* sendToAI calls that called setCachedResponse
  cacheMem,            \* StorageService.cache entry of 'cache'
  cacheStored,         \* chrome.storage.local holds a 'cache' value
  cacheReads,          \* sendToAI calls that called getCachedResponse
  cacheGot,            \* <<outcome>> of the last getCachedResponse called on its own
  cacheCalls,          \* number of cache operations called on their own
  tpc,                 \* position of each trackUsage call
  targ,                \* its arguments
  usageObj,            \* the usage object each trackUsage call created
  usageRef,            \* the usage object each trackUsage call works on
  usageSnap,           \* the value it passed to chrome.storage.local.set
  usageMem,            \* StorageService.cache entry of 'usage': object id, 0 if none
  usageStored,         \* chrome.storage.local 'usage': <<value>>, << >> if none
  sequential,          \* usage totals of the same trackUsage calls run one by one
  today                \* current calendar day

routerVars == <<settings, userPreferences, performanceMetrics, routeReq, routeResult>>

callVars == <<pc, req, prov, rid, resp, caller>>

managerVars == <<nextRequestId, activeRequests, aborted, cancelled>>

streamVars == <<net, fullContent, streamPromise>>

notifyVars == <<pendingSends, delivered>>

cacheVars == <<cacheWrites, cacheMem, cacheStored, cacheReads, cacheGot, cacheCalls>>

usageVars == <<tpc, targ, usageObj, usageRef, usageSnap, usageMem, usageStored, sequential, today>>

vars == <<routerVars, apiKeys, callVars, managerVars, streamVars, notifyVars,
          cacheVars, usageVars>>

NoNet == [phase |-> "none", calls |-> 0, finished |-> FALSE]

RouterInit ==
  /\ userPreferences = NoPreferences
  /\ routeReq = << >>
  /\ routeResult = << >>

DispatchInit ==
  /\ apiKeys = ProviderSet
  /\ pc = [d \in Dispatches |-> "idle"]
  /\ req = [d \in Dispatches |-> NoRequest]
  /\ prov = [d \in Dispatches |-> NoProvider]
  /\ rid = [d \in Dispatches |-> 0]
  /\ resp = [d \in Dispatches |-> NoResponse]
  /\ caller = [d \in Dispatches |-> "none"]
  /\ nextRequestId = 1
  /\ activeRequests = {}
  /\ aborted = {}
  /\ cancelled = {}
  /\ net = [d \in Dispatches |-> NoNet]
  /\ fullContent = [d \in Dispatches |-> << >>]
  /\ streamPromise = [d \in Dispatches |-> "none"]
  /\ pendingSends = {}
  /\ delivered = [id \in RequestIds |-> << >>]
  /\ cacheWrites = {}
  /\ cacheMem = NoCacheObject
  /\ cacheStored = FALSE
  /\ cacheReads = {}
  /\ cacheGot = << >>
  /\ cacheCalls = 0

UsageInit ==
  /\ tpc = [d \in Dispatches |-> "idle"]
  /\ targ = [d \in Dispatches |-> [provider |-> NoProvider, response |-> NoResponse]]
  /\ usageObj = [d \in Dispatches |-> EmptyUsage]
  /\ usageRef = [d \in Dispatches |-> 0]
  /\ usageSnap = [d \in Dispatches |-> EmptyUsage]
  /\ usageMem = 0
  /\ usageStored = << >>
  /\ sequential = EmptyUsage
  /\ today = 1

dispatchVars == <<apiKeys, callVars, managerVars, streamVars, notifyVars, cacheVars>>

(***************************************************************************)
(* AIRouter and settings operations                                        *)
(***************************************************************************)
\* AIRouter.route(request)
Route(request) ==
  /\ routeReq' = <<request>>
  /\ routeResult' = << route(settings, userPreferences, performanceMetrics, request) >>
  /\ UNCHANGED <<settings, userPreferences, performanceMetrics, dispatchVars, usageVars>>

\* AIRouter.updatePreference(taskType, provider)
updatePreference(taskType, provider) ==
  /\ userPreferences' = [userPreferences EXCEPT ![taskType] = provider]
  /\ UNCHANGED <<settings, performanceMetrics, routeReq, routeResult,
                 dispatchVars, usageVars>>

\* UPDATE_SETTINGS { providers: { [provider]: { enabled } } }
UpdateProviderEnabled(provider, enabled) ==
  /\ settings' = [settings EXCEPT !.providers[provider].enabled = enabled]
  /\ UNCHANGED <<userPreferences, performanceMetrics, routeReq, routeResult,
                 dispatchVars, usageVars>>

(***************************************************************************)
(* sendToAI and APIManager.sendRequest                                     *)
(***************************************************************************)
\* calls are numbered in the order they are made
slotsInOrder(d) == \A e \in Dispatches : e < d => pc[e] # "idle"

\* sendToAI(request) up to the credential check
SendToAI(d, request) ==
  LET r == resolveProvider(settings, userPreferences, performanceMetrics,
                           apiKeys, request)
  IN  /\ pc[d] = "idle"
      /\ tpc[d] = "idle"
      /\ slotsInOrder(d)
      /\ req' = [req EXCEPT ![d] = request]
      /\ prov' = [prov EXCEPT ![d] = r.provider]
      /\ resp' = [resp EXCEPT ![d] = IF r.threw THEN caughtResponse(request, r.error)
                                     ELSE NoResponse]
      /\ pc' = [pc EXCEPT ![d] = IF r.threw THEN "returned" ELSE "lookup"]
      /\ caller' = [caller EXCEPT ![d] = "sendToAI"]
      /\ UNCHANGED <<routerVars, apiKeys, rid, managerVars, streamVars, notifyVars,
                     cacheVars, usageVars>>

\* APIManager.sendRequest up to its await: the request id and its controller
\* are registered and the adapter call is started
register(d, stream) ==
  /\ rid' = [rid EXCEPT ![d] = nextRequestId]
  /\ nextRequestId' = nextRequestId + 1
  /\ activeRequests' = activeRequests \cup {nextRequestId}
  /\ net' = [net EXCEPT ![d] = [phase |-> "fetch", calls |-> 0, finished |-> FALSE]]
  /\ streamPromise' = [streamPromise EXCEPT ![d] = IF stream THEN "pending" ELSE "none"]
  /\ pc' = [pc EXCEPT ![d] = "adapter"]

\* APIManager.sendRequest(request) called on its own
sendRequest(d, request) ==
  /\ pc[d] = "idle"
  /\ tpc[d] = "idle"
  /\ slotsInOrder(d)
  /\ request.provider # NoProvider
  /\ req' = [req EXCEPT ![d] = request]
  /\ prov' = [prov EXCEPT ![d] = request.provider]
  /\ caller' = [caller EXCEPT ![d] = "direct"]
  /\ register(d, request.stream)
  /\ UNCHANGED <<routerVars, apiKeys, resp, aborted, cancelled, fullContent,
                 notifyVars, cacheVars, usageVars>>

\* sendToAI: cache lookup, then APIManager.sendRequest up to its await
Lookup(d) ==
  LET caching == settings.advanced.cacheResponses
      g == getCachedResponse(cacheMem, cacheStored, generateCacheKey(req[d]))
      proceed == ~caching \/ g.kind = "miss"
  IN  /\ pc[d] = "lookup"
      /\ cacheMem' = IF caching THEN g.mem ELSE cacheMem
      /\ cacheStored' = IF caching THEN g.stored ELSE cacheStored
      /\ cacheReads' = IF caching THEN cacheReads \cup {d} ELSE cacheReads
      /\ IF proceed
         THEN /\ register(d, req[d].stream)
              /\ UNCHANGED resp
         ELSE /\ resp' = [resp EXCEPT ![d] =
                            IF g.kind = "hit" THEN g.response
                            ELSE caughtResponse(req[d],
                                   "cache.entries.get is not a function")]
              /\ pc' = [pc EXCEPT ![d] = "returned"]
              /\ UNCHANGED <<rid, nextRequestId, activeRequests, net, streamPromise>>
      /\ UNCHANGED <<routerVars, apiKeys, req, prov, caller, aborted, cancelled,
                     fullContent, notifyVars, cacheWrites, cacheGot, cacheCalls,
                     usageVars>>

\* variant: sendRequest returns without its finally block
returnsResponseNoFinally(d, response) ==
  /\ resp' = [resp EXCEPT ![d] = response]
  /\ activeRequests' = activeRequests
  /\ pc' = [pc EXCEPT ![d] =
              IF caller[d] = "direct" THEN "returned"
              ELSE IF settings.advanced.cacheResponses /\ response.error = ""
              THEN "store" ELSE "track"]

\* APIManager.sendRequest returns response (its finally block runs); a
\* sendToAI caller goes on to the cache store or to trackUsage
returnsResponse(d, response) ==
  /\ resp' = [resp EXCEPT ![d] = response]
  /\ activeRequests' = activeRequests \ {rid[d]}
  /\ pc' = [pc EXCEPT ![d] =
              IF caller[d] = "direct" THEN "returned"
              ELSE IF settings.advanced.cacheResponses /\ response.error = ""
              THEN "store" ELSE "track"]

\* APIManager.sendRequest throws (its finally block runs); the catch block
\* of a sendToAI caller returns an error Response
throwsError(d, message) ==
  /\ resp' = [resp EXCEPT ![d] = caughtResponse(req[d], message)]
  /\ activeRequests' = activeRequests \ {rid[d]}
  /\ pc' = [pc EXCEPT ![d] = "returned"]

\* provider.sendRequest settles: the HTTP answer arrives
\* variant: an error Response is handed to the cache store as well
sendRequestSettleStoresErrors(d, status) ==
  /\ pc[d] = "adapter"
  /\ ~req[d].stream
  /\ net[d].phase = "fetch"
  /\ rid[d] \notin aborted
  /\ net' = [net EXCEPT ![d].phase = "done"]
  /\ resp' = [resp EXCEPT ![d] = IF status = 200 THEN transformResponse(prov[d])
                                 ELSE handleError(prov[d], HttpError(status))]
  /\ activeRequests' = activeRequests \ {rid[d]}
  /\ pc' = [pc EXCEPT ![d] =
              IF caller[d] = "direct" THEN "returned"
              ELSE IF settings.advanced.cacheResponses THEN "store" ELSE "track"]
  /\ UNCHANGED <<routerVars, apiKeys, req, prov, rid, caller, nextRequestId, aborted,
                 cancelled, fullContent, streamPromise, notifyVars, cacheVars,
                 usageVars>>

sendRequestSettle(d, status) ==
  /\ pc[d] = "adapter"
  /\ ~req[d].stream
  /\ net[d].phase = "fetch"
  /\ rid[d] \notin aborted
  /\ net' = [net EXCEPT ![d].phase = "done"]
  /\ returnsResponse(d, IF status = 200 THEN transformResponse(prov[d])
                        ELSE handleError(prov[d], HttpError(status)))
  /\ UNCHANGED <<routerVars, apiKeys, req, prov, rid, caller, nextRequestId, aborted,
                 cancelled, fullContent, streamPromise, notifyVars, cacheVars,
                 usageVars>>

StreamChunkMsg(requestId, n, finished) ==
  [type |-> "STREAM_CHUNK", requestId |-> requestId, seq |-> n, finished |-> finished]

StreamEndMsg(requestId) ==
  [type |-> "STREAM_END", requestId |-> requestId, seq |-> 0, finished |-> TRUE]

\* the messages sendStreamChunk / sendStreamEnd can be asked to send
Notifications ==
  { StreamChunkMsg(id, n, f) : id \in RequestIds, n \in 1..MaxChunks, f \in BOOLEAN }
    \cup { StreamEndMsg(id) : id \in RequestIds }

\* provider.streamRequest resolves with final: the .then handler of
\* handleStreamingRequest calls sendStreamEnd and resolves the promise
streamFinish(d, final) ==
  /\ net' = [net EXCEPT ![d].phase = "done"]
  /\ pendingSends' = pendingSends \cup {StreamEndMsg(rid[d])}
  /\ IF streamPromise[d] = "pending"
     THEN /\ streamPromise' = [streamPromise EXCEPT ![d] = "resolved"]
          /\ returnsResponse(d, [final EXCEPT !.content = fullContent[d],
                                              !.streaming = TRUE])
     ELSE UNCHANGED <<streamPromise, resp, activeRequests, pc>>

\* streamRequest: fetch resolves with the response headers
streamOpen(d, status) ==
  /\ req[d].stream
  /\ net[d].phase = "fetch"
  /\ rid[d] \notin aborted
  /\ IF status = 200
     THEN /\ net' = [net EXCEPT ![d].phase = "body"]
          /\ UNCHANGED <<pendingSends, streamPromise, resp, activeRequests, pc>>
     ELSE streamFinish(d, handleError(prov[d], FetchNotOk(status)))
  /\ UNCHANGED <<routerVars, apiKeys, req, prov, rid, caller, nextRequestId, aborted,
                 cancelled, fullContent, delivered, cacheVars, usageVars>>

\* streamRequest: reader.read() yields one event line and the adapter calls
\* onChunk, the callback of handleStreamingRequest, with a delta or with the
\* adapter's finished marker
streamRead(d, finished) ==
  LET n == net[d].calls + 1
  IN  /\ req[d].stream
      /\ net[d].phase = "body"
      /\ rid[d] \notin aborted
      /\ ~net[d].finished
      /\ n <= MaxChunks
      /\ net' = [net EXCEPT ![d].calls = n, ![d].finished = finished]
      /\ IF rid[d] \in aborted
         THEN /\ IF streamPromise[d] = "pending"
                 THEN /\ streamPromise' = [streamPromise EXCEPT ![d] = "rejected"]
                      /\ throwsError(d, "Request was cancelled")
                 ELSE UNCHANGED <<streamPromise, resp, activeRequests, pc>>
              /\ UNCHANGED <<fullContent, pendingSends>>
         ELSE /\ fullContent' = [fullContent EXCEPT ![d] =
                                   IF finished THEN @ ELSE Append(@, n)]
              /\ pendingSends' = pendingSends \cup {StreamChunkMsg(rid[d], n, finished)}
              /\ UNCHANGED <<streamPromise, resp, activeRequests, pc>>
      /\ UNCHANGED <<routerVars, apiKeys, req, prov, rid, caller, nextRequestId, aborted,
                     cancelled, delivered, cacheVars, usageVars>>

\* streamRequest: reader.read() reports done
streamEnd(d) ==
  /\ req[d].stream
  /\ net[d].phase = "body"
  /\ rid[d] \notin aborted
  /\ streamFinish(d, Response(prov[d], fullContent[d], "", << >>, 0, TRUE))
  /\ UNCHANGED <<routerVars, apiKeys, req, prov, rid, caller, nextRequestId, aborted,
                 cancelled, fullContent, delivered, cacheVars, usageVars>>

\* the aborted signal rejects the pending axios call, fetch or reader.read();
\* the adapter's catch block turns the rejection into an error Response
adapterAborted(d) ==
  /\ net[d].phase \in {"fetch", "body"}
  /\ rid[d] \in aborted
  /\ IF req[d].stream
     THEN streamFinish(d, handleError(prov[d], FetchAborted))
     ELSE /\ net' = [net EXCEPT ![d].phase = "done"]
          /\ returnsResponse(d, handleError(prov[d], AxiosCanceled))
          /\ UNCHANGED <<pendingSends, streamPromise>>
  /\ UNCHANGED <<routerVars, apiKeys, req, prov, rid, caller, nextRequestId, aborted,
                 cancelled, fullContent, delivered, cacheVars, usageVars>>

\* variant: cancelling one request in flight aborts all of them
cancelRequestAbortsAll(requestId) ==
  /\ IF requestId \in activeRequests
     THEN /\ aborted' = aborted \cup activeRequests
          /\ activeRequests' = {}
          /\ cancelled' = cancelled \cup activeRequests
     ELSE UNCHANGED <<aborted, activeRequests, cancelled>>
  /\ UNCHANGED <<routerVars, apiKeys, callVars, nextRequestId, streamVars,
                 notifyVars, cacheVars, usageVars>>

\* APIManager.cancelRequest(requestId)
cancelRequest(requestId) ==
  /\ IF requestId \in activeRequests
     THEN /\ aborted' = aborted \cup {requestId}
          /\ activeRequests' = activeRequests \ {requestId}
          /\ cancelled' = cancelled \cup {requestId}
     ELSE UNCHANGED <<aborted, activeRequests, cancelled>>
  /\ UNCHANGED <<routerVars, apiKeys, callVars, nextRequestId, streamVars,
                 notifyVars, cacheVars, usageVars>>

\* APIManager.cancelAllRequests()
cancelAllRequests ==
  /\ aborted' = aborted \cup activeRequests
  /\ cancelled' = cancelled \cup activeRequests
  /\ activeRequests' = {}
  /\ UNCHANGED <<routerVars, apiKeys, callVars, nextRequestId, streamVars,
                 notifyVars, cacheVars, usageVars>>

\* sendStreamChunk / sendStreamEnd resume after chrome.tabs.query: with an
\* active tab the message goes out through chrome.tabs.sendMessage
tabsQueryDone(m, hasTab) ==
  /\ m \in pendingSends
  /\ pendingSends' = pendingSends \ {m}
  /\ delivered' = IF hasTab THEN [delivered EXCEPT ![m.requestId] = Append(@, m)]
                  ELSE delivered
  /\ UNCHANGED <<routerVars, apiKeys, callVars, managerVars, streamVars,
                 cacheVars, usageVars>>

\* sendToAI: storageService.setCachedResponse(cacheKey, response, provider)
CacheStore(d) ==
  /\ pc[d] = "store"
  /\ cacheMem' = setCachedResponse(cacheMem, cacheStored, generateCacheKey(req[d]),
                                   resp[d], prov[d])
  /\ cacheStored' = TRUE
  /\ cacheWrites' = cacheWrites \cup {d}
  /\ pc' = [pc EXCEPT ![d] = "track"]
  /\ UNCHANGED <<routerVars, apiKeys, req, prov, rid, resp, caller, managerVars, streamVars,
                 notifyVars, cacheReads, cacheGot, cacheCalls, usageVars>>

(***************************************************************************)
(* trackUsage(provider, response)                                          *)
(***************************************************************************)
\* trackUsage up to its first suspension: with a live memory-cache entry
\* storageService.get hands back the cached object itself, which is updated
\* in place and passed to storageService.set; otherwise chrome.storage is read
trackBegin(d, provider, response) ==
  /\ targ' = [targ EXCEPT ![d] = [provider |-> provider, response |-> response]]
  /\ sequential' = recordUsage(sequential, provider, response, today)
  /\ IF usageMem # 0
     THEN LET updated == recordUsage(usageObj[usageMem], provider, response, today)
          IN  /\ usageObj' = [usageObj EXCEPT ![usageMem] = updated]
              /\ usageRef' = [usageRef EXCEPT ![d] = usageMem]
              /\ usageSnap' = [usageSnap EXCEPT ![d] = updated]
              /\ tpc' = [tpc EXCEPT ![d] = "set"]
     ELSE /\ tpc' = [tpc EXCEPT ![d] = "get"]
          /\ UNCHANGED <<usageObj, usageRef, usageSnap>>
  /\ UNCHANGED <<usageMem, usageStored, today>>

\* sendToAI: await trackUsage(provider, response)
TrackUsageOfDispatch(d) ==
  /\ pc[d] = "track"
  /\ tpc[d] = "idle"
  /\ trackBegin(d, prov[d], resp[d])
  /\ UNCHANGED <<routerVars, dispatchVars>>

\* trackUsage called on its own
TrackUsage(d, provider, response) ==
  /\ pc[d] = "idle"
  /\ tpc[d] = "idle"
  /\ trackBegin(d, provider, response)
  /\ UNCHANGED <<routerVars, dispatchVars>>

\* trackUsage called once the previous call has returned
TrackUsageInTurn(d, provider, response) ==
  /\ \A e \in Dispatches : tpc[e] \in {"idle", "done"}
  /\ TrackUsage(d, provider, response)

\* variant: the update starts from the default object whatever storage holds
trackUsageGotFromDefault(d) ==
  LET updated == recordUsage(EmptyUsage, targ[d].provider, targ[d].response, today)
  IN  /\ tpc[d] = "get"
      /\ usageObj' = [usageObj EXCEPT ![d] = updated]
      /\ usageRef' = [usageRef EXCEPT ![d] = d]
      /\ usageSnap' = [usageSnap EXCEPT ![d] = updated]
      /\ usageMem' = IF usageStored # << >> THEN d ELSE usageMem
      /\ tpc' = [tpc EXCEPT ![d] = "set"]
      /\ UNCHANGED <<routerVars, dispatchVars, targ, usageStored, sequential, today>>

\* chrome.storage.local.get answers: the value read (a fresh copy, cached in
\* memory when it is not null) or the default object is updated and passed to
\* storageService.set
trackUsageGot(d) ==
  LET start == IF usageStored # << >> THEN usageStored[1] ELSE EmptyUsage
      updated == recordUsage(start, targ[d].provider, targ[d].response, today)
  IN  /\ tpc[d] = "get"
      /\ usageObj' = [usageObj EXCEPT ![d] = updated]
      /\ usageRef' = [usageRef EXCEPT ![d] = d]
      /\ usageSnap' = [usageSnap EXCEPT ![d] = updated]
      /\ usageMem' = IF usageStored # << >> THEN d ELSE usageMem
      /\ tpc' = [tpc EXCEPT ![d] = "set"]
      /\ UNCHANGED <<routerVars, dispatchVars, targ, usageStored, sequential, today>>

\* chrome.storage.local.set answers: the value passed is stored, set() caches
\* the object in memory and trackUsage returns
trackUsageSet(d) ==
  /\ tpc[d] = "set"
  /\ usageStored' = << usageSnap[d] >>
  /\ usageMem' = usageRef[d]
  /\ tpc' = [tpc EXCEPT ![d] = "done"]
  /\ pc' = [pc EXCEPT ![d] = IF pc[d] = "track" THEN "returned" ELSE pc[d]]
  /\ UNCHANGED <<routerVars, apiKeys, req, prov, rid, resp, caller, managerVars, streamVars,
                 notifyVars, cacheVars, targ, usageObj, usageRef, usageSnap,
                 sequential, today>>

\* the calendar date new Date() reports moves on by days between two
\* trackUsage calls
dayPasses(days) ==
  /\ \A d \in Dispatches : tpc[d] \in {"idle", "done"}
  /\ today + days <= MaxDay
  /\ today' = today + days
  /\ UNCHANGED <<routerVars, dispatchVars, tpc, targ, usageObj, usageRef, usageSnap,
                 usageMem, usageStored, sequential>>

\* a memory-cache entry of StorageService goes away: cacheTimeout has passed
\* or the chrome.storage.onChanged listener deleted it
memCacheDrop(key) ==
  /\ IF key = "usage"
     THEN /\ usageMem # 0
          /\ usageMem' = 0
          /\ UNCHANGED cacheMem
     ELSE /\ cacheMem.present
          /\ cacheMem' = NoCacheObject
          /\ UNCHANGED usageMem
  /\ UNCHANGED <<routerVars, apiKeys, callVars, managerVars, streamVars, notifyVars,
                 cacheWrites, cacheStored, cacheReads, cacheGot, cacheCalls, tpc, targ,
                 usageObj, usageRef, usageSnap, usageStored, sequential, today>>

(***************************************************************************)
(* API_KEY_UPDATED: saveAPIKey stores the key encrypted with the password  *)
(* of the message; getAPIKey yields it only if getMasterPassword decrypts  *)
(* it                                                                      *)
(***************************************************************************)
saveAPIKey(provider, masterPassword) ==
  /\ apiKeys' = IF masterPassword = getMasterPassword
                THEN apiKeys \cup {provider}
                ELSE apiKeys \ {provider}
  /\ UNCHANGED <<routerVars, callVars, managerVars, streamVars, notifyVars,
                 cacheVars, usageVars>>

(***************************************************************************)
(* StorageService cache operations called on their own                     *)
(***************************************************************************)
CacheRequests ==
  { Request("claude", MsgHi, FALSE, << >>),
    Request("grok", MsgHi, FALSE, << >>) }

CacheKeys == { generateCacheKey(request) : request \in CacheRequests }

CacheResponses == { transformResponse("claude"), transformResponse("grok") }

\* storageService.setCachedResponse(key, response, provider)
PutCached(key, response) ==
  /\ cacheCalls < MaxCacheCalls
  /\ cacheCalls' = cacheCalls + 1
  /\ cacheMem' = setCachedResponse(cacheMem, cacheStored, key, response,
                                   response.provider)
  /\ cacheStored' = TRUE
  /\ cacheGot' = << [op |-> "put", key |-> key, kind |-> "put",
                     response |-> response, fresh |-> TRUE] >>
  /\ UNCHANGED <<routerVars, apiKeys, callVars, managerVars, streamVars, notifyVars,
                 cacheWrites, cacheReads, usageVars>>

\* storageService.getCachedResponse(key); fresh tells whether the entry found
\* was within its TTL
GetCached(key) ==
  LET g == getCachedResponse(cacheMem, cacheStored, key)
      i == entryIndex(cacheMem.entries, key)
  IN  /\ cacheCalls < MaxCacheCalls
      /\ cacheCalls' = cacheCalls + 1
      /\ cacheMem' = g.mem
      /\ cacheStored' = g.stored
      /\ cacheGot' = << [op |-> "get", key |-> key, kind |-> g.kind,
                         response |-> g.response,
                         fresh |-> ~(i # 0 /\ cacheMem.entries[i].expired)] >>
      /\ UNCHANGED <<routerVars, apiKeys, callVars, managerVars, streamVars,
                     notifyVars, cacheWrites, cacheReads, usageVars>>

\* time passes: the entry of key becomes older than cache.ttl
ttlElapses(key) ==
  LET i == entryIndex(cacheMem.entries, key)
  IN  /\ cacheMem.present /\ cacheMem.isMap
      /\ i # 0
      /\ ~cacheMem.entries[i].expired
      /\ cacheMem' = [cacheMem EXCEPT !.entries[i].expired = TRUE]
      /\ cacheGot' = IF cacheGot # << >> /\ cacheGot[1].key = key
                     THEN << [cacheGot[1] EXCEPT !.fresh = FALSE] >>
                     ELSE cacheGot
      /\ UNCHANGED <<routerVars, apiKeys, callVars, managerVars, streamVars,
                     notifyVars, cacheWrites, cacheStored, cacheReads, cacheCalls,
                     usageVars>>

(***************************************************************************)
(* Storage I/O failures: chrome.storage rejects a get or a set             *)
(***************************************************************************)
\* message of the rejection of chrome.storage
StorageError == "storage error"

\* sendToAI: the cache lookup meets a storage failure.  Without a live memory
\* entry chrome.storage.local.get rejects, StorageService.get returns null and
\* the request is dispatched; with a live entry that holds the key the set of
\* getCachedResponse / removeCachedResponse rejects and sendToAI catches it
LookupStorageFails(d) ==
  LET key == generateCacheKey(req[d])
      found == cacheMem.isMap /\ entryIndex(cacheMem.entries, key) # 0
      g == getCachedResponse(cacheMem, cacheStored, key)
  IN  /\ pc[d] = "lookup"
      /\ settings.advanced.cacheResponses
      /\ cacheMem.present => found
      /\ cacheReads' = cacheReads \cup {d}
      /\ IF cacheMem.present
         THEN /\ cacheMem' = g.mem
              /\ resp' = [resp EXCEPT ![d] = caughtResponse(req[d], StorageError)]
              /\ pc' = [pc EXCEPT ![d] = "returned"]
              /\ UNCHANGED <<rid, nextRequestId, activeRequests, net, streamPromise>>
         ELSE /\ register(d, req[d].stream)
              /\ UNCHANGED <<cacheMem, resp>>
      /\ UNCHANGED <<routerVars, apiKeys, req, prov, caller, aborted, cancelled,
                     fullContent, notifyVars, cacheWrites, cacheStored, cacheGot,
                     cacheCalls, usageVars>>

\* sendToAI: the set of setCachedResponse rejects and sendToAI catches it; the
\* entry stays in the cache object when that object is the memory-cached one
CacheStoreFails(d) ==
  /\ pc[d] = "store"
  /\ cacheMem' = IF getCacheObject(cacheMem, cacheStored).present
                 THEN setCachedResponse(cacheMem, cacheStored,
                                        generateCacheKey(req[d]), resp[d], prov[d])
                 ELSE cacheMem
  /\ cacheWrites' = cacheWrites \cup {d}
  /\ resp' = [resp EXCEPT ![d] = caughtResponse(req[d], StorageError)]
  /\ pc' = [pc EXCEPT ![d] = "returned"]
  /\ UNCHANGED <<routerVars, apiKeys, req, prov, rid, caller, managerVars, streamVars,
                 notifyVars, cacheStored, cacheReads, cacheGot, cacheCalls, usageVars>>

\* trackUsage: chrome.storage.local.set rejects, StorageService.set rethrows
\* and the catch block of sendToAI returns an error Response
trackUsageSetFails(d) ==
  /\ tpc[d] = "set"
  /\ pc[d] = "track"
  /\ tpc' = [tpc EXCEPT ![d] = "done"]
  /\ resp' = [resp EXCEPT ![d] = caughtResponse(req[d], StorageError)]
  /\ pc' = [pc EXCEPT ![d] = "returned"]
  /\ UNCHANGED <<routerVars, apiKeys, req, prov, rid, caller, managerVars, streamVars,
                 notifyVars, cacheVars, targ, usageObj, usageRef, usageSnap, usageMem,
                 usageStored, sequential, today>>

(***************************************************************************)
(* Specifications                                                          *)
(***************************************************************************)
\* the router on its own
RouteInit ==
  /\ RouterInit /\ DispatchInit /\ UsageInit
  /\ settings = getDefaultSettings
  /\ performanceMetrics \in MetricsPool

RouteNext ==
  \/ \E request \in RequestPool : Route(request)
  \/ \E t \in PreferenceTasks, p \in PreferenceProviders : updatePreference(t, p)
  \/ \E p \in ProviderSet, e \in BOOLEAN : UpdateProviderEnabled(p, e)

SpecRoute == RouteInit /\ [][RouteNext]_vars

\* APIManager on its own: concurrent sendRequest calls, cancellation and the
\* stream notifications sent to the content script
ManagerRequests ==
  { Request("claude", MsgHi, TRUE, << >>),
    Request("gemini", MsgHi, FALSE, << >>) }

ManagerInit ==
  /\ RouterInit /\ DispatchInit /\ UsageInit
  /\ settings = LimitOneSettings
  /\ performanceMetrics = initializeMetrics

ManagerNext ==
  \/ \E d \in Dispatches, request \in ManagerRequests : sendRequest(d, request)
  \/ \E d \in Dispatches, status \in HttpStatuses : sendRequestSettle(d, status)
  \/ \E d \in Dispatches, status \in HttpStatuses : streamOpen(d, status)
  \/ \E d \in Dispatches, finished \in BOOLEAN : streamRead(d, finished)
  \/ \E d \in Dispatches : streamEnd(d)
  \/ \E d \in Dispatches : adapterAborted(d)
  \/ \E id \in RequestIds : cancelRequest(id)
  \/ cancelAllRequests
  \/ \E m \in Notifications, hasTab \in BOOLEAN : tabsQueryDone(m, hasTab)

SpecManager == ManagerInit /\ [][ManagerNext]_vars

\* sendToAI from the call to its return: concurrent dispatches with cache,
\* cancellation and usage tracking.  The continuations of sendStreamChunk /
\* sendStreamEnd only append to delivered, which nothing else reads;
\* SpecManager explores them.
SendInit ==
  /\ RouterInit /\ DispatchInit /\ UsageInit
  /\ settings \in SettingsPool
  /\ performanceMetrics = initializeMetrics

SendNext ==
  \/ \E d \in Dispatches, request \in DispatchRequests : SendToAI(d, request)
  \/ \E d \in Dispatches : Lookup(d)
  \/ \E d \in Dispatches, status \in HttpStatuses : sendRequestSettle(d, status)
  \/ \E d \in Dispatches, status \in HttpStatuses : streamOpen(d, status)
  \/ \E d \in Dispatches, finished \in BOOLEAN : streamRead(d, finished)
  \/ \E d \in Dispatches : streamEnd(d)
  \/ \E d \in Dispatches : adapterAborted(d)
  \/ \E id \in RequestIds : cancelRequest(id)
  \/ cancelAllRequests
  \/ \E d \in Dispatches : CacheStore(d)
  \/ \E d \in Dispatches : TrackUsageOfDispatch(d)
  \/ \E d \in Dispatches : trackUsageGot(d)
  \/ \E d \in Dispatches : trackUsageSet(d)
  \/ \E key \in {"usage", "cache"} : memCacheDrop(key)

SpecSend == SendInit /\ [][SendNext]_vars

\* the dispatch path of sendToAI up to the point where it hands the response
\* to trackUsage
CancelInit ==
  /\ RouterInit /\ DispatchInit /\ UsageInit
  /\ settings = getDefaultSettings
  /\ performanceMetrics = initializeMetrics

CancelNext ==
  \/ \E d \in Dispatches, request \in DispatchRequests : SendToAI(d, request)
  \/ \E d \in Dispatches : Lookup(d)
  \/ \E d \in Dispatches, status \in HttpStatuses : sendRequestSettle(d, status)
  \/ \E d \in Dispatches, status \in HttpStatuses : streamOpen(d, status)
  \/ \E d \in Dispatches, finished \in BOOLEAN : streamRead(d, finished)
  \/ \E d \in Dispatches : streamEnd(d)
  \/ \E d \in Dispatches : adapterAborted(d)
  \/ \E id \in RequestIds : cancelRequest(id)
  \/ cancelAllRequests
  \/ \E d \in Dispatches : CacheStore(d)
  \/ memCacheDrop("cache")

SpecCancel == CancelInit /\ [][CancelNext]_vars

\* sendToAI with a chrome.storage that may reject any get or set
UnaryRequests == { Request(NoProvider, MsgHi, FALSE, << >>) }

FailOpenNext ==
  \/ \E d \in Dispatches, request \in UnaryRequests : SendToAI(d, request)
  \/ \E d \in Dispatches : Lookup(d)
  \/ \E d \in Dispatches : LookupStorageFails(d)
  \/ \E d \in Dispatches, status \in HttpStatuses : sendRequestSettle(d, status)
  \/ \E d \in Dispatches : CacheStore(d)
  \/ \E d \in Dispatches : CacheStoreFails(d)
  \/ \E d \in Dispatches : TrackUsageOfDispatch(d)
  \/ \E d \in Dispatches : trackUsageGot(d)
  \/ \E d \in Dispatches : trackUsageSet(d)
  \/ \E d \in Dispatches : trackUsageSetFails(d)
  \/ \E key \in {"usage", "cache"} : memCacheDrop(key)

SpecFailOpen == CancelInit /\ [][FailOpenNext]_vars

\* sendToAI under either cache setting and with API keys coming and going
ConfigRequests ==
  { Request("claude", MsgHi, FALSE, << >>),
    Request(NoProvider, MsgHi, FALSE, << >>) }

\* the providers the ConfigRequests resolve to: the explicit one and the one
\* the router picks for MsgHi under the default settings
ConfigProviders == {"claude", "grok"}

ConfigInit ==
  /\ RouterInit /\ DispatchInit /\ UsageInit
  /\ settings \in {getDefaultSettings, NoCacheSettings}
  /\ performanceMetrics = initializeMetrics

ConfigNext ==
  \/ \E d \in Dispatches, request \in ConfigRequests : SendToAI(d, request)
  \/ \E d \in Dispatches : Lookup(d)
  \/ \E d \in Dispatches, status \in HttpStatuses : sendRequestSettle(d, status)
  \/ \E d \in Dispatches : adapterAborted(d)
  \/ \E id \in RequestIds : cancelRequest(id)
  \/ \E d \in Dispatches : CacheStore(d)
  \/ memCacheDrop("cache")
  \/ \E provider \in ConfigProviders, masterPassword \in MasterPasswords :
        saveAPIKey(provider, masterPassword)

SpecConfig == ConfigInit /\ [][ConfigNext]_vars

\* the response cache of StorageService driven by direct calls
CacheNext ==
  \/ \E key \in CacheKeys, response \in CacheResponses : PutCached(key, response)
  \/ \E key \in CacheKeys : GetCached(key)
  \/ \E key \in CacheKeys : ttlElapses(key)
  \/ memCacheDrop("cache")

SpecCache == CancelInit /\ [][CacheNext]_vars

\* concurrent trackUsage calls
UsageResponses ==
  { transformResponse("claude"), handleError("claude", HttpError(401)),
    transformResponse("grok") }

UsageInitial == RouteInit

UsageNext ==
  \/ \E d \in Dispatches, r \in UsageResponses : TrackUsage(d, r.provider, r)
  \/ \E d \in Dispatches : trackUsageGot(d)
  \/ \E d \in Dispatches : trackUsageSet(d)
  \/ memCacheDrop("usage")

SpecUsage == UsageInitial /\ [][UsageNext]_vars

\* trackUsage calls made one after another
InTurnNext ==
  \/ \E d \in Dispatches, r \in UsageResponses : TrackUsageInTurn(d, r.provider, r)
  \/ \E d \in Dispatches : trackUsageGot(d)
  \/ \E d \in Dispatches : trackUsageSet(d)
  \/ memCacheDrop("usage")

SpecInTurn == UsageInitial /\ [][InTurnNext]_vars

\* trackUsage calls made one after another, with stretches of more than
\* DailyRetention days on which nothing is recorded
DaySteps == {DailyRetention + 1}

DaysNext ==
  \/ \E d \in Dispatches, r \in UsageResponses : TrackUsageInTurn(d, r.provider, r)
  \/ \E d \in Dispatches : trackUsageGot(d)
  \/ \E d \in Dispatches : trackUsageSet(d)
  \/ memCacheDrop("usage")
  \/ \E days \in DaySteps : dayPasses(days)

SpecDays == UsageInitial /\ [][DaysNext]_vars

(***************************************************************************)
(* Properties                                                              *)
(***************************************************************************)
EnabledProviders == {p \in ProviderSet : settings.providers[p].enabled}

\* the STREAM_CHUNK messages sent for a request id, in sending order
chunksOf(id) == SelectSeq(delivered[id], LAMBDA m : m.type = "STREAM_CHUNK")

\* sendStreamChunk / sendStreamEnd calls of a request id still at their await
pendingOf(id) == {m \in pendingSends : m.requestId = id}

\* C1: the STREAM_CHUNK notifications of one request id reach
\* chrome.tabs.sendMessage in the order in which onChunk was invoked for them
StreamChunksInOrder ==
  \A id \in RequestIds :
    \A i, j \in 1..Len(chunksOf(id)) :
      i < j => chunksOf(id)[i].seq < chunksOf(id)[j].seq

\* C2: once cancelRequest / cancelAllRequests has returned for an in-flight
\* request id, no further STREAM_CHUNK tagged with that id is sent
NoChunkAfterCancel ==
  [][ \A id \in cancelled : Len(chunksOf(id))' = Len(chunksOf(id)) ]_vars

\* C3: a dispatch whose request id was cancelled while in flight never reaches
\* the setCachedResponse call of sendToAI, unary or streaming
NoCacheWriteAfterCancel ==
  \A d \in Dispatches :
    rid[d] \in cancelled => pc[d] # "store" /\ d \notin cacheWrites

\* a streaming dispatch that had received text and a unary dispatch were both
\* cancelled in flight with caching on, and sendToAI has gone past the cache
\* decision for both
NoCacheWriteAfterCancelWitness ==
  /\ settings.advanced.cacheResponses
  /\ \E d, e \in Dispatches :
       /\ req[d].stream /\ ~req[e].stream
       /\ rid[d] \in cancelled /\ rid[e] \in cancelled
       /\ fullContent[d] # << >>
       /\ pc[d] = "track" /\ pc[e] = "track"

usageTotals(usage) ==
  [totalRequests |-> usage.totalRequests, totalTokens |-> usage.totalTokens,
   totalCost |-> usage.totalCost,
   byProvider |-> [p \in ProviderSet |->
                     [requests |-> usage.byProvider[p].requests,
                      errors |-> usage.byProvider[p].errors]]]

\* C5: once all trackUsage calls have finished, the stored usage totals equal
\* the totals of the same calls run one after another
NoLostUsageUpdate ==
  ( /\ \A d \in Dispatches : tpc[d] \in {"idle", "done"}
    /\ \E d \in Dispatches : tpc[d] = "done" )
  => /\ usageStored # << >>
     /\ usageTotals(usageStored[1]) = usageTotals(sequential)

\* C6: route returns the provider field of a request that sets it
RouteKeepsExplicitProvider ==
  [][ \A request \in RequestPool :
        (Route(request) /\ request.provider # NoProvider) =>
           /\ ~routeResult'[1].threw
           /\ routeResult'[1].provider = request.provider ]_vars

\* C7: every route call made while at least one provider is enabled resolves
\* to a provider that is enabled in the settings the call read
RouteReturnsEnabledProvider ==
  [][ (\E request \in RequestPool : Route(request)) =>
        (EnabledProviders # {} =>
           /\ ~routeResult'[1].threw
           /\ routeResult'[1].provider \in EnabledProviders) ]_vars

\* a route call has returned a provider while some, but not all, are enabled
RouteReturnsEnabledProviderWitness ==
  /\ routeReq # << >>
  /\ ~routeResult[1].threw
  /\ EnabledProviders # {}
  /\ EnabledProviders # ProviderSet
  /\ routeResult[1].provider \in EnabledProviders

\* C8: with zero providers enabled no sendToAI call dispatches to an adapter:
\* none registers a request with APIManager
NoDispatchWithoutEnabledProvider ==
  EnabledProviders = {} =>
    \A d \in Dispatches : pc[d] # "adapter" /\ rid[d] = 0

\* C9: for every streaming dispatch exactly one STREAM_END is sent for its
\* request id and nothing is sent for that id after it
StreamEndsExactlyOnce ==
  \A d \in Dispatches :
    (req[d].stream /\ rid[d] # 0) =>
      LET s == delivered[rid[d]]
          ends == {i \in 1..Len(s) : s[i].type = "STREAM_END"}
      IN  /\ \A i \in ends : i = Len(s)
          /\ (pc[d] = "returned" /\ pendingOf(rid[d]) = {}) => Cardinality(ends) = 1

\* C10: the number of entries of activeRequests never exceeds
\* settings.advanced.concurrentRequests
ActiveRequestsWithinLimit ==
  Cardinality(activeRequests) <= settings.advanced.concurrentRequests

\* the steps in which a cache store or the usage recording of dispatch d meets
\* a storage failure
accountingFails(d) == CacheStoreFails(d) \/ trackUsageSetFails(d)

\* C11: a storage failure in the cache lookup, the cache store or the usage
\* recording leaves the dispatch as it was: after a failed lookup the adapter
\* is called, and after a failed store or recording sendToAI still holds the
\* adapter's Response
StorageFailureIsFailOpen ==
  [][ \A d \in Dispatches :
        /\ LookupStorageFails(d) => pc'[d] = "adapter"
        /\ accountingFails(d) => resp'[d] = resp[d] ]_vars


\* the dispatches that were cancelled in flight and whose sendRequest call has
\* ended
cancelledAndEnded == {d \in Dispatches : rid[d] \in cancelled /\ pc[d] # "adapter"}

\* C12: the Response of a cancelled dispatch does not report the cancellation
\* through its error field
CancellationIsNotAnError ==
  \A d \in cancelledAndEnded : resp[d].error = ""


\* C13: every Response sendToAI has returned has content or an error, and
\* not both
ExactlyOneOfContentAndError ==
  \A d \in Dispatches :
    (caller[d] = "sendToAI" /\ pc[d] = "returned") =>
       \/ resp[d].content # << >> /\ resp[d].error = ""
       \/ resp[d].content = << >> /\ resp[d].error # ""


\* the text fragments sent to the content script for a request id, in
\* sending order
deliveredDeltas(id) ==
  LET sent == SelectSeq(delivered[id],
                        LAMBDA m : m.type = "STREAM_CHUNK" /\ ~m.finished)
  IN  [i \in 1..Len(sent) |-> sent[i].seq]

\* C14: once a streaming dispatch has returned and none of its notifications
\* is outstanding, the content of its Response is the in-order concatenation
\* of exactly the deltas that were sent for its request id
ContentIsDeliveredDeltas ==
  \A d \in Dispatches :
    (req[d].stream /\ pc[d] = "returned" /\ rid[d] # 0 /\ pendingOf(rid[d]) = {}) =>
       resp[d].content = deliveredDeltas(rid[d])


\* the sendToAI calls that stored the Response of a request identical to that
\* of call d before d looks the cache up
storedBefore(d) ==
  {e \in cacheWrites : e # d /\ pc[e] \in {"track", "returned"} /\ req[e] = req[d]}

\* C15: with caching enabled, the lookup of a request whose identical
\* predecessor completed without error and was stored returns the stored
\* Response and calls no adapter
SecondCallIsServedFromCache ==
  [][ \A d \in Dispatches :
        (Lookup(d) /\ settings.advanced.cacheResponses /\ storedBefore(d) # {}) =>
           /\ pc'[d] = "returned"
           /\ rid'[d] = 0
           /\ \E e \in storedBefore(d) : resp'[d] = resp[e] ]_vars


\* the entry the memory-cached cache object holds for key, << >> if none
cachedEntry(key) ==
  LET i == entryIndex(cacheMem.entries, key)
  IN  IF cacheMem.present /\ cacheMem.isMap /\ i # 0
      THEN << cacheMem.entries[i] >> ELSE << >>

\* C16: getCachedResponse(key) right after setCachedResponse(key, r), within
\* the TTL, returns r, and the entry's hit counter goes from 0 to 1
CacheRoundTrip ==
  [][ \A key \in CacheKeys :
        ( /\ GetCached(key)
          /\ cacheGot # << >>
          /\ cacheGot[1].op = "put" /\ cacheGot[1].key = key /\ cacheGot[1].fresh )
        => /\ cacheGot'[1].kind = "hit"
           /\ cacheGot'[1].response = cacheGot[1].response
           /\ cachedEntry(key)' # << >>
           /\ cachedEntry(key)'[1].hits = 1 ]_vars

\* keys sendToAI has stored a Response under
writtenKeys == { generateCacheKey(req[e]) : e \in cacheWrites }

ExpiredLookupIsMissAndEvicts ==
  [][ \A key \in CacheKeys :
        ( /\ GetCached(key)
          /\ cachedEntry(key) # << >>
          /\ cachedEntry(key)[1].expired )
        => /\ cacheGot'[1].kind = "miss"
           /\ cacheGot'[1].response = NoResponse
           /\ cachedEntry(key)' = << >>
           /\ Len(cacheMem'.entries) = Len(cacheMem.entries) - 1
           /\ \A other \in CacheKeys \ {key} :
                 cachedEntry(other)' = cachedEntry(other) ]_vars

\* an expired entry was looked up and another entry is still cached
ExpiredLookupIsMissAndEvictsWitness ==
  /\ cacheGot # << >>
  /\ cacheGot[1].op = "get" /\ cacheGot[1].kind = "miss" /\ ~cacheGot[1].fresh
  /\ cacheMem.present /\ cacheMem.entries # << >>

\* C19: no cache entry holds a Response with an error; sendToAI stores only
\* with caching enabled and an error-free Response, and with caching
\* disabled it neither reads nor writes the cache
NoErrorResponseCached ==
  /\ \A i \in 1..Len(cacheMem.entries) : cacheMem.entries[i].response.error = ""
  /\ \A d \in cacheWrites : settings.advanced.cacheResponses /\ resp[d].error = ""
  /\ ~settings.advanced.cacheResponses =>
        /\ cacheReads = {} /\ cacheWrites = {}
        /\ cacheMem = NoCacheObject /\ ~cacheStored

\* an error Response passed the store point of sendToAI with caching enabled
\* while an error-free one is cached
NoErrorResponseCachedWitness ==
  /\ settings.advanced.cacheResponses
  /\ cacheMem.entries # << >>
  /\ \E d \in Dispatches :
        pc[d] = "track" /\ resp[d].error # "" /\ d \in cacheReads /\ d \notin cacheWrites

\* C20: a sendToAI whose resolved provider has no retrievable API key returns
\* the configuration error at once and registers no adapter call
MissingKeyIsSurfacedWithoutDispatch ==
  [][ /\ \A d \in Dispatches, request \in ConfigRequests :
          ( /\ SendToAI(d, request)
            /\ prov'[d] # NoProvider
            /\ prov'[d] \notin apiKeys )
          => /\ pc'[d] = "returned"
             /\ resp'[d].error = "API key not found"
             /\ resp'[d].content = << >>
             /\ rid'[d] = 0
             /\ net'[d] = NoNet
             /\ activeRequests' = activeRequests
             /\ nextRequestId' = nextRequestId
      /\ \A d \in Dispatches :
          (pc[d] = "returned" /\ resp[d].error = "API key not found")
          => /\ pc'[d] = "returned"
             /\ resp'[d] = resp[d]
             /\ rid'[d] = 0
             /\ net'[d] = NoNet ]_vars

\* a request was refused for want of a key and never reached an adapter
MissingKeyIsSurfacedWithoutDispatchWitness ==
  \E d \in Dispatches :
    /\ pc[d] = "returned" /\ caller[d] = "sendToAI"
    /\ prov[d] # NoProvider /\ prov[d] \notin apiKeys
    /\ resp[d].error = "API key not found"
    /\ rid[d] = 0 /\ net[d] = NoNet

\* the trackUsage calls that have returned
tracked == {d \in Dispatches : tpc[d] = "done"}

\* response.usage.<field> || 0 of the response call d was made with
tokensOf(d, field) ==
  IF targ[d].response.usage = << >> THEN 0 ELSE targ[d].response.usage[1][field]

RECURSIVE sumTokens(_, _)
sumTokens(S, field) ==
  IF S = {} THEN 0
  ELSE LET d == CHOOSE x \in S : TRUE
       IN  tokensOf(d, field) + sumTokens(S \ {d}, field)

\* C21: after trackUsage calls made one after another, in whatever order, the
\* stored totalRequests is their number and the stored token totals are the
\* sums of their token counts
UsageIsAdditive ==
  ( /\ \A d \in Dispatches : tpc[d] \in {"idle", "done"}
    /\ tracked # {} )
  => /\ usageStored # << >>
     /\ usageStored[1].totalRequests = Cardinality(tracked)
     /\ usageStored[1].totalTokens.input = sumTokens(tracked, "inputTokens")
     /\ usageStored[1].totalTokens.output = sumTokens(tracked, "outputTokens")

\* two calls with different responses have returned
UsageIsAdditiveWitness ==
  /\ \A d \in Dispatches : tpc[d] \in {"idle", "done"}
  /\ \E d, e \in tracked :
        /\ targ[d].response # targ[e].response
        /\ tokensOf(d, "inputTokens") > 0
  /\ usageStored # << >>
  /\ usageStored[1].totalRequests >= 2

\* the per-provider record of the stored usage object, the default if none
storedProviderUsage(provider) ==
  IF usageStored = << >> THEN NoProviderUsage
  ELSE usageStored[1].byProvider[provider]

\* the message the adapters give an HTTP 401
unauthorizedMessages == {"Invalid API key", "Invalid or missing API key"}

\* C22: a dispatch answered with HTTP 401 gets the unauthorized message with
\* empty content, sendToAI returns that Response, and its trackUsage adds
\* exactly one request and one error to the stored record of the provider
UnauthorizedIsReturnedAndCounted ==
  [][ \A d \in Dispatches :
        /\ (sendRequestSettle(d, 401) /\ caller[d] = "sendToAI")
           => /\ resp'[d].error \in unauthorizedMessages
              /\ resp'[d].content = << >>
              /\ pc'[d] = "track"
        /\ ( /\ trackUsageSet(d)
             /\ pc[d] = "track"
             /\ resp[d].error \in unauthorizedMessages )
           => /\ pc'[d] = "returned"
              /\ resp'[d] = resp[d]
              /\ storedProviderUsage(prov[d])'.requests =
                   storedProviderUsage(prov[d]).requests + 1
              /\ storedProviderUsage(prov[d])'.errors =
                   storedProviderUsage(prov[d]).errors + 1 ]_vars

\* the scores of the last routed request under the present router state
lastScores ==
  IF routeReq = << >> THEN << >>
  ELSE calculateScores(settings, userPreferences, performanceMetrics, routeReq[1])

\* README: capability match 40%, user preference 30%, cost efficiency 20%,
\* response speed 10%, as tenths
weights ==
  [capabilityMatch |-> 4, userPreference |-> 3, costEfficiency |-> 2,
   responseSpeed |-> 1]

\* a reported factor as a multiple of a tenth of ScoreScale
tenthOf(factors, name) ==
  CASE name = "capabilityMatch" -> factors[name] * (ScoreScale \div 100)
    [] name = "userPreference"  -> factors[name] * (ScoreScale \div 1000)
    [] name = "costEfficiency"  -> factors[name] * (ScoreScale \div (10 * maxCost))
    [] name = "responseSpeed"   -> factors[name] * (ScoreScale \div (10 * maxTime))

\* C23: every score the router produces is 0.4 capabilityMatch + 0.3
\* userPreference + 0.2 costEfficiency + 0.1 responseSpeed of the factors
\* reported with it
ScoreIsWeightedSum ==
  \A i \in 1..Len(lastScores) :
     lastScores[i].score =
         weights.capabilityMatch * tenthOf(lastScores[i].factors, "capabilityMatch")
       + weights.userPreference * tenthOf(lastScores[i].factors, "userPreference")
       + weights.costEfficiency * tenthOf(lastScores[i].factors, "costEfficiency")
       + weights.responseSpeed * tenthOf(lastScores[i].factors, "responseSpeed")

\* scores of several providers whose factors differ
ScoreIsWeightedSumWitness ==
  \E i, j \in 1..Len(lastScores) :
     /\ lastScores[i].factors.userPreference = 100
     /\ lastScores[j].factors.userPreference = 30
     /\ lastScores[i].factors.capabilityMatch # lastScores[j].factors.capabilityMatch
     /\ lastScores[i].score # lastScores[j].score

ScenarioA == Request(NoProvider, MsgDebug, FALSE, << >>)

\* C24: 'Debug this function' with every provider enabled, no stored
\* preference and the default metrics is classified as debugging or
\* code_generation and routed to chatgpt, whose capability for the task is 1.0
DebugRequestGoesToChatGPT ==
  [][ ( /\ Route(ScenarioA)
        /\ \A p \in ProviderSet : settings.providers[p].enabled
        /\ userPreferences = NoPreferences
        /\ performanceMetrics = initializeMetrics )
      => /\ detectTaskType(ScenarioA) \in {"debugging", "code_generation"}
         /\ capabilities["chatgpt"][detectTaskType(ScenarioA)] = 10
         /\ ~routeResult'[1].threw
         /\ routeResult'[1].provider = "chatgpt" ]_vars

\* the routing rules whose pattern matches the content of the request
matchingRules(request) ==
  {k \in 1..Len(routingRules) :
     test(routingRules[k].pattern, getRequestContent(request))}

\* C25: when routing rules match, the detected task type is the first task
\* type of a matching rule of the highest priority among the matching rules
DetectionRespectsPriority ==
  (routeReq # << >> /\ matchingRules(routeReq[1]) # {}) =>
     \E k \in matchingRules(routeReq[1]) :
        /\ \A j \in matchingRules(routeReq[1]) :
              routingRules[j].priority <= routingRules[k].priority
        /\ detectTaskType(routeReq[1]) = routingRules[k].taskTypes[1]

\* the stored daily buckets
storedDays == IF usageStored = << >> THEN << >> ELSE usageStored[1].dailyUsage

\* C26: the bucket of a day holds the number of responses recorded that day
\* and the sum of their usage.totalTokens
DailyTokensAreSummed ==
  ( /\ \A d \in Dispatches : tpc[d] \in {"idle", "done"}
    /\ tracked # {} )
  => \E i \in 1..Len(storedDays) :
        /\ storedDays[i].date = today
        /\ storedDays[i].requests = Cardinality(tracked)
        /\ storedDays[i].tokens = sumTokens(tracked, "totalTokens")

\* C27: after a trackUsage write no stored bucket is dated more than 30 days
\* before the current day
NoBucketOlderThanRetention ==
  [][ \A d \in Dispatches :
        trackUsageSet(d) =>
          \A i \in 1..Len(storedDays') :
             today - storedDays'[i].date <= DailyRetention ]_vars

\* C28: an HTTP 401 is classified alike by the unary and the streaming call:
\* each resolves to a Response with empty content and the unauthorized
\* message of the adapter
StreamClassifiesLikeUnary ==
  [][ \A d \in Dispatches :
        /\ sendRequestSettle(d, 401)
           => /\ resp'[d].content = << >>
              /\ resp'[d].error \in unauthorizedMessages
        /\ (streamOpen(d, 401) /\ streamPromise[d] = "pending")
           => /\ resp'[d].content = << >>
              /\ resp'[d].error \in unauthorizedMessages
              /\ resp'[d].error = handleError(prov[d], HttpError(401)).error ]_vars

\* the requestId the UI puts next to the request in the SEND_TO_AI payload of
\* call d ("req-<ms>"); handleMessage takes only `request` out of the payload.
\* The ids of generateRequestId ("req-<ms>-<random>") are the positive numbers.
payloadRequestId(d) == 0 - d

\* C29: a dispatch started by SEND_TO_AI is in flight under the requestId of
\* the message, and its STREAM_CHUNK and STREAM_END notifications carry it
DispatchKeepsPayloadRequestId ==
  /\ \A d \in Dispatches :
        (caller[d] = "sendToAI" /\ pc[d] = "adapter") =>
           /\ rid[d] = payloadRequestId(d)
           /\ payloadRequestId(d) \in activeRequests
  /\ \A m \in pendingSends :
        \E d \in Dispatches :
           caller[d] = "sendToAI" /\ m.requestId = payloadRequestId(d)

\* C30: cancelRequest(id) aborts and removes the request registered under id
\* and leaves every other request in flight registered and un-aborted, and
\* with an id that is not in flight it changes nothing
CancelAffectsOnlyItsRequest ==
  [][ \A id \in RequestIds :
        cancelRequest(id) =>
          /\ id \in activeRequests => (id \in aborted' /\ id \notin activeRequests')
          /\ id \notin activeRequests => UNCHANGED vars
          /\ \A other \in RequestIds \ {id} :
                /\ other \in activeRequests' <=> other \in activeRequests
                /\ other \in aborted' <=> other \in aborted
          /\ \A d \in Dispatches :
                pc'[d] = pc[d] /\ net'[d] = net[d] /\ resp'[d] = resp[d] ]_vars

\* one of two requests in flight was cancelled, the other is still
\* registered with an un-aborted controller
CancelAffectsOnlyItsRequestWitness ==
  \E id \in cancelled, other \in activeRequests :
     /\ other # id
     /\ other \notin aborted
     /\ id \in aborted /\ id \notin activeRequests
     /\ \E d, e \in Dispatches :
           rid[d] = id /\ rid[e] = other /\ pc[d] = "adapter" /\ pc[e] = "adapter"

=============================================================================
